---- MODULE Spec2Model ----
(***************************************************************************)
(* Model of hhnk_research_tools/logger.py: the configuration builder       *)
(* (get_logconfig_dict), its applier (set_default_logconfig), the sink     *)
(* helpers (add_file_handler, _add_or_update_streamhandler_format) and     *)
(* the named logger accessor (get_logger).                                 *)
(*                                                                         *)
(* Logger names and namespaces are sequences of characters, so that        *)
(* str.replace is modelled on characters.  File paths are sequences of     *)
(* path components; <<"/", ...>> is an absolute path.  Log levels are the  *)
(* numeric levels of the logging facility.                                 *)
(***************************************************************************)
EXTENDS Integers, Sequences, FiniteSets, TLC

VARIABLES
    loggers,   \* the logger registry: name -> [level, handlers, propagate]
    last,      \* the most recent call: its arguments and the handle before it
    prev,      \* the call before the most recent one
    nops,      \* number of calls made so far
    args,      \* inputs of a pure-function run (drawn by Init)
    result,    \* value returned (or error raised) by the last builder call
    pc,        \* position of a pure-function run
    thr        \* per-thread position of the concurrent callers

vars == <<loggers, last, prev, nops, args, result, pc, thr>>

----------------------------------------------------------------------------
(* Bounds of the model *)

MaxOps == 4        \* calls per behaviour of Spec
MaxSegs == 3       \* name segments per input name of SpecNames
MaxList == 2       \* namespaces per level_dict value of SpecConfig
NumThreads == 2    \* concurrent callers of SpecConc

----------------------------------------------------------------------------
(* Module constants, logger.py:16-17 and the defaults of add_file_handler *)

LOGFORMAT == "%(asctime)s|%(levelname)-8s| %(name)s:%(lineno)-4d| %(message)s"
DATEFMT == "%H:%M:%S"
FILEDATEFMT == "%Y-%m-%d %H:%M:%S"
DefaultMaxBytes == 10 * 1024 * 1024
DefaultBackupCount == 5
TimedBackupCount == 7

(* Numeric value of a level name, as logger.setLevel / handler.setLevel
   stores it. *)
NameToLevel ==
    [n \in {"NOTSET", "DEBUG", "INFO", "WARNING", "ERROR"} |->
        CASE n = "NOTSET" -> 0
          [] n = "DEBUG" -> 10
          [] n = "INFO" -> 20
          [] n = "WARNING" -> 30
          [] n = "ERROR" -> 40]

Formatter(fmt, datefmt) == [fmt |-> fmt, datefmt |-> datefmt]

----------------------------------------------------------------------------
(* Names *)

RootName == <<>>
OLD1 == <<"h","h","n","k","_","r","e","s","e","a","r","c","h","_","t","o","o","l","s">>
NEW1 == <<"h","r","t">>
OLD2 == <<"h","h","n","k","_","t","h","r","e","e","d","i","_","t","o","o","l","s">>
NEW2 == <<"h","t","t">>

(* The replacements dict of get_logger, in insertion order. *)
replacements == << <<OLD1, NEW1>>, <<OLD2, NEW2>> >>

(* old occurs in s at position i *)
OccursAt(s, old, i) ==
    /\ i + Len(old) - 1 <= Len(s)
    /\ SubSeq(s, i, i + Len(old) - 1) = old

Contains(s, old) == \E i \in 1..Len(s) : OccursAt(s, old, i)

(* str.replace(old, new) for a non-empty old: left to right, occurrences
   do not overlap, the text put in is not scanned again. *)
RECURSIVE ReplaceFrom(_, _, _, _)
ReplaceFrom(s, old, new, i) ==
    IF i > Len(s) THEN <<>>
    ELSE IF OccursAt(s, old, i)
         THEN new \o ReplaceFrom(s, old, new, i + Len(old))
         ELSE <<s[i]>> \o ReplaceFrom(s, old, new, i + 1)

(* A replace that stops after the first occurrence. *)
RECURSIVE ReplaceFirstFrom(_, _, _, _)
ReplaceFirstFrom(s, old, new, i) ==
    IF i > Len(s) THEN <<>>
    ELSE IF OccursAt(s, old, i)
         THEN new \o SubSeq(s, i + Len(old), Len(s))
         ELSE <<s[i]>> \o ReplaceFirstFrom(s, old, new, i + 1)

ReplaceFirst(s, old, new) == ReplaceFirstFrom(s, old, new, 1)

Replace(s, old, new) == ReplaceFrom(s, old, new, 1)

(* for old, new in replacements.items(): name = name.replace(old, new) *)
RECURSIVE ShortenFrom(_, _)
ShortenFrom(name, k) ==
    IF k > Len(replacements) THEN name
    ELSE ShortenFrom(Replace(name, replacements[k][1], replacements[k][2]), k + 1)

ShortenName(name) == ShortenFrom(name, 1)

----------------------------------------------------------------------------
(* Paths *)

Cwd == <<"/", "cwd">>

IsAbs(parts) == Len(parts) > 0 /\ parts[1] = "/"

(* os.path.abspath, as FileHandler.__init__ applies it to the file name:
   the stream of the handler is opened on it, so it is handler.stream.name. *)
AbsPath(parts) == IF IsAbs(parts) THEN parts ELSE Cwd \o parts

StrPath(parts) == [type |-> "str", parts |-> parts]
PathObj(parts) == [type |-> "Path", parts |-> parts]
NoPath == [type |-> "none", parts |-> <<>>]

(* Path(handler.stream.name) == filepath: a Path never equals a str. *)
PathEqualsArg(streamName, filepath) ==
    /\ filepath.type = "Path"
    /\ streamName = filepath.parts

(* The comparison made on resolved paths, whatever the type of the argument. *)
PathEqualsResolved(streamName, filepath) ==
    streamName = AbsPath(filepath.parts)

----------------------------------------------------------------------------
(* Handlers (sinks) *)

IsFileHandler(h) == h.cls \in {"FileHandler", "RotatingFileHandler"}

(* isinstance(h, logging.StreamHandler): FileHandler and RotatingFileHandler
   are subclasses of StreamHandler. *)
IsStreamHandler(h) == h.cls \in {"StreamHandler", "FileHandler", "RotatingFileHandler"}

(* A sink that writes to the console and not to a file. *)
IsConsole(h) == h.cls = "StreamHandler"

StdoutName == <<"<stdout>">>
StderrName == <<"<stderr>">>

NewStreamHandler(stream, fmt, datefmt, level) ==
    [cls |-> "StreamHandler", name |-> stream, formatter |-> Formatter(fmt, datefmt),
     level |-> level, filters |-> <<>>]

NewLogger == [level |-> 0, handlers |-> <<>>, propagate |-> TRUE]

RemoveAt(seq, i) == SubSeq(seq, 1, i - 1) \o SubSeq(seq, i + 1, Len(seq))

----------------------------------------------------------------------------
(* add_file_handler *)

(* The loop "for handler in logger.handlers" with removeHandler in its body:
   the list iterator keeps its index while the list shrinks, so the element
   that follows a removed one is not visited.  i is the iterator's next
   position (from 1). *)
RECURSIVE RemoveExisting(_, _, _)
RemoveExisting(handlers, filepath, i) ==
    IF i > Len(handlers) THEN handlers
    ELSE IF IsFileHandler(handlers[i]) /\ PathEqualsArg(handlers[i].name, filepath)
         THEN RemoveExisting(RemoveAt(handlers, i), filepath, i + 1)
         ELSE RemoveExisting(handlers, filepath, i + 1)

(* if rotate: logging.FileHandler(...) else: RotatingFileHandler(...) *)
HandlerClass(rotate) ==
    IF rotate THEN "FileHandler" ELSE "RotatingFileHandler"

(* The level of the nearest registered ancestor-or-self with an explicit
   level (Logger.getEffectiveLevel of the logging facility). *)
IsAncestorName(a, n) ==
    IF a = RootName THEN n # RootName
    ELSE /\ Len(a) < Len(n)
         /\ SubSeq(n, 1, Len(a)) = a
         /\ n[Len(a) + 1] = "."

EffectiveLevelIn(reg, n, own) ==
    IF own # 0 THEN own
    ELSE LET anc == {a \in DOMAIN reg : IsAncestorName(a, n) /\ reg[a].level # 0}
         IN  IF anc = {} THEN 0
             ELSE reg[CHOOSE a \in anc : \A b \in anc : Len(b) <= Len(a)].level

(* A default that follows the effective level instead of logger.level. *)
FileLevelInherited(logger, filelevel) ==
    IF filelevel = "" THEN (IF logger.level # 0 THEN logger.level ELSE 30)
    ELSE NameToLevel[filelevel]

(* if filelevel == "": filelevel = logger.level; file_handler.setLevel(filelevel) *)
FileLevel(logger, filelevel) ==
    IF filelevel = "" THEN logger.level ELSE NameToLevel[filelevel]

(* if logfilter: file_handler.addFilter(logfilter) *)
Filters(logfilter) == IF logfilter # "None" THEN <<logfilter>> ELSE <<>>

(* lines 154-169: a plain FileHandler has a mode only, a RotatingFileHandler
   has maxBytes and backupCount too. *)
NewFileHandler(logger, filepath, filemode, filelevel, fmt, datefmt, maxBytes, backupCount, rotate, logfilter) ==
    IF HandlerClass(rotate) = "RotatingFileHandler"
    THEN [cls |-> "RotatingFileHandler",
          name |-> AbsPath(filepath.parts),
          mode |-> filemode,
          maxBytes |-> maxBytes,
          backupCount |-> backupCount,
          formatter |-> Formatter(fmt, datefmt),
          level |-> FileLevel(logger, filelevel),
          filters |-> Filters(logfilter)]
    ELSE [cls |-> "FileHandler",
          name |-> AbsPath(filepath.parts),
          mode |-> filemode,
          formatter |-> Formatter(fmt, datefmt),
          level |-> FileLevel(logger, filelevel),
          filters |-> Filters(logfilter)]

add_file_handler(logger, filepath, filemode, filelevel, fmt, datefmt, maxBytes, backupCount, rotate, logfilter) ==
    [logger EXCEPT !.handlers =
        Append(RemoveExisting(logger.handlers, filepath, 1),
               NewFileHandler(logger, filepath, filemode, filelevel, fmt, datefmt,
                              maxBytes, backupCount, rotate, logfilter))]

----------------------------------------------------------------------------
(* _add_or_update_streamhandler_format *)

(* Position of the first handler the scan accepts, 0 when there is none. *)
FirstStreamHandler(handlers) ==
    IF \E i \in 1..Len(handlers) : IsStreamHandler(handlers[i])
    THEN CHOOSE i \in 1..Len(handlers) :
            /\ IsStreamHandler(handlers[i])
            /\ \A j \in 1..(i - 1) : ~IsStreamHandler(handlers[j])
    ELSE 0

add_or_update_streamhandler_format(logger, fmt, datefmt) ==
    LET k == FirstStreamHandler(logger.handlers)
    IN  IF k # 0
        THEN [logger EXCEPT !.handlers[k].formatter = Formatter(fmt, datefmt)]
        ELSE [logger EXCEPT !.handlers =
                Append(@, NewStreamHandler(StdoutName, fmt, datefmt, 0))]

----------------------------------------------------------------------------
(* get_logger *)

(* logging.getLogger(name): the handle of that name, created on first use;
   the empty name is the root logger. *)
Registered(reg, name) ==
    IF name \in DOMAIN reg THEN reg
    ELSE [n \in DOMAIN reg \cup {name} |-> IF n = name THEN NewLogger ELSE reg[n]]

(* if level is not None: logger.setLevel(level) *)
WithLevel(logger, level) ==
    IF level # "None" THEN [logger EXCEPT !.level = NameToLevel[level]] ELSE logger

(* if (fmt != LOGFORMAT) or (datefmt != DATEFMT): _add_or_update_... *)
WithFormat(logger, fmt, datefmt) ==
    IF fmt # LOGFORMAT \/ datefmt # DATEFMT
    THEN add_or_update_streamhandler_format(logger, fmt, datefmt)
    ELSE logger

get_logger(reg, name, level, fmt, datefmt) ==
    LET short == ShortenName(name)
        reg1 == Registered(reg, short)
    IN  [reg1 EXCEPT ![short] = WithFormat(WithLevel(@, level), fmt, datefmt)]

----------------------------------------------------------------------------
(* Calls on the process-wide registry *)

NoCall ==
    [op |-> "none", handle |-> RootName, name |-> RootName, filepath |-> NoPath,
     filelevel |-> "", rotate |-> FALSE, fmt |-> LOGFORMAT, datefmt |-> DATEFMT,
     level |-> "None", existed |-> FALSE, pre |-> NewLogger, preEffective |-> 0]

(* The registry of a fresh interpreter: the root logger at WARNING. *)
FreshRegistry == [n \in {RootName} |-> [NewLogger EXCEPT !.level = 30]]

CUSTOMFMT == "%(levelname)s %(message)s"
OTHERFMT == "%(message)s"

P1 == <<"/", "cwd", "a.log">>
P1Rel == <<"a.log">>
P2 == <<"/", "cwd", "b.log">>

AddFileHandler(n, filepath, filelevel, fmt, rotate, logfilter) ==
    /\ nops < MaxOps
    /\ n \in DOMAIN loggers
    /\ loggers' = [loggers EXCEPT ![n] =
            add_file_handler(@, filepath, "a", filelevel, fmt, FILEDATEFMT,
                             DefaultMaxBytes, DefaultBackupCount, rotate, logfilter)]
    /\ last' = [NoCall EXCEPT !.op = "add_file_handler", !.handle = n,
                    !.filepath = filepath, !.filelevel = filelevel,
                    !.rotate = rotate, !.fmt = fmt, !.datefmt = FILEDATEFMT,
                    !.existed = TRUE, !.pre = loggers[n],
                    !.preEffective = EffectiveLevelIn(loggers, n, loggers[n].level)]
    /\ prev' = last
    /\ nops' = nops + 1
    /\ UNCHANGED <<args, result, pc, thr>>

AddOrUpdateStreamhandlerFormat(n, fmt, datefmt) ==
    /\ nops < MaxOps
    /\ n \in DOMAIN loggers
    /\ loggers' = [loggers EXCEPT ![n] =
            add_or_update_streamhandler_format(@, fmt, datefmt)]
    /\ last' = [NoCall EXCEPT !.op = "add_or_update_streamhandler_format",
                    !.handle = n, !.fmt = fmt, !.datefmt = datefmt,
                    !.existed = TRUE, !.pre = loggers[n],
                    !.preEffective = EffectiveLevelIn(loggers, n, loggers[n].level)]
    /\ prev' = last
    /\ nops' = nops + 1
    /\ UNCHANGED <<args, result, pc, thr>>

GetLogger(name, level, fmt, datefmt) ==
    /\ nops < MaxOps
    /\ loggers' = get_logger(loggers, name, level, fmt, datefmt)
    /\ last' = [NoCall EXCEPT !.op = "get_logger", !.name = name,
                    !.handle = ShortenName(name),
                    !.level = level, !.fmt = fmt, !.datefmt = datefmt,
                    !.existed = (ShortenName(name) \in DOMAIN loggers),
                    !.pre = Registered(loggers, ShortenName(name))[ShortenName(name)],
                    !.preEffective = 0]
    /\ prev' = last
    /\ nops' = nops + 1
    /\ UNCHANGED <<args, result, pc, thr>>

(* Inputs of Spec *)
HandleNames == {OLD1}
FilePathArgs == {StrPath(P1), PathObj(P1), PathObj(P1Rel), PathObj(P2)}
FileLevelArgs == {"", "ERROR"}
LogFilterArgs == {"None", "filter"}
LevelArgs == {"None", "INFO"}
FormatArgs == {LOGFORMAT, CUSTOMFMT}
StreamFormatArgs == {CUSTOMFMT, OTHERFMT}

Init ==
    /\ loggers = FreshRegistry
    /\ last = NoCall
    /\ prev = NoCall
    /\ nops = 0
    /\ args = <<>>
    /\ result = <<>>
    /\ pc = "idle"
    /\ thr = <<>>

Next ==
    \/ \E n \in DOMAIN loggers \ {RootName}, fp \in FilePathArgs,
          fl \in FileLevelArgs, r \in BOOLEAN, lf \in LogFilterArgs :
            AddFileHandler(n, fp, fl, LOGFORMAT, r, lf)
    \/ \E n \in DOMAIN loggers \ {RootName}, f \in StreamFormatArgs :
            AddOrUpdateStreamhandlerFormat(n, f, DATEFMT)
    \/ \E name \in HandleNames, l \in LevelArgs, f \in FormatArgs :
            GetLogger(name, l, f, DATEFMT)

Spec == Init /\ [][Next]_vars

----------------------------------------------------------------------------
(* Properties of the sink helpers and of get_logger, under Spec *)

FileSinks(handlers) == {i \in 1..Len(handlers) : IsFileHandler(handlers[i])}
ConsoleSinks(handlers) == {i \in 1..Len(handlers) : IsConsole(handlers[i])}

(* The sink the last call appended (add_file_handler always appends). *)
NewestSink(n) == loggers[n].handlers[Len(loggers[n].handlers)]

(* C1: after any sequence of add_file_handler calls (path given as a str or
   as a Path), no handle holds two file sinks with the same resolved path,
   and two calls in a row with the same path P leave exactly one file sink
   whose path is P. *)
C1_OneFileSinkPerPath ==
    /\ \A n \in DOMAIN loggers :
         \A i, j \in FileSinks(loggers[n].handlers) :
            i # j => loggers[n].handlers[i].name # loggers[n].handlers[j].name
    /\ ( /\ last.op = "add_file_handler"
         /\ prev.op = "add_file_handler"
         /\ last.handle = prev.handle
         /\ last.filepath = prev.filepath )
       => Cardinality({i \in FileSinks(loggers[last.handle].handlers) :
                PathEqualsResolved(loggers[last.handle].handlers[i].name,
                                   last.filepath)}) = 1

(* C2: on a handle with zero or one console sink and any number of file
   sinks, two calls in a row of _add_or_update_streamhandler_format with the
   same pattern leave exactly one console sink, which carries the formatter
   of the second call; and a call never adds a console sink when one is
   attached already. *)
C2_TwoCallsLeaveOneConsoleSink ==
    /\ ( /\ last.op = "add_or_update_streamhandler_format"
         /\ prev.op = "add_or_update_streamhandler_format"
         /\ last.handle = prev.handle
         /\ last.fmt = prev.fmt
         /\ last.datefmt = prev.datefmt
         /\ Cardinality(ConsoleSinks(prev.pre.handlers)) <= 1 )
       => /\ Cardinality(ConsoleSinks(loggers[last.handle].handlers)) = 1
          /\ \A i \in ConsoleSinks(loggers[last.handle].handlers) :
                loggers[last.handle].handlers[i].formatter
                    = Formatter(last.fmt, last.datefmt)
    /\ ( /\ last.op = "add_or_update_streamhandler_format"
         /\ ConsoleSinks(last.pre.handlers) # {} )
       => Cardinality(ConsoleSinks(loggers[last.handle].handlers))
            = Cardinality(ConsoleSinks(last.pre.handlers))

(* C3: add_file_handler appends a size-based rotating sink (10 MiB, 5
   backups) when rotate is set and a plain file sink when it is not. *)
C3_RotateSelectsRotatingSink ==
    last.op = "add_file_handler" =>
        IF last.rotate
        THEN /\ NewestSink(last.handle).cls = "RotatingFileHandler"
             /\ NewestSink(last.handle).maxBytes = DefaultMaxBytes
             /\ NewestSink(last.handle).backupCount = DefaultBackupCount
        ELSE NewestSink(last.handle).cls = "FileHandler"

(* C4 as stated: without a file level the new sink's level is the handle's
   effective level (its own, or else the nearest ancestor's explicit level);
   with a file level it is that level. *)
C4_DefaultIsEffectiveLevel ==
    last.op = "add_file_handler" =>
        NewestSink(last.handle).level =
            IF last.filelevel = "" THEN last.preEffective
            ELSE NameToLevel[last.filelevel]

(* C4 as amended: without a file level the new sink's level is the handle's
   own level (NOTSET when the handle has no explicit level, whatever its
   ancestors have); with a file level it is that level. *)
C4_DefaultIsOwnLevel ==
    last.op = "add_file_handler" =>
        NewestSink(last.handle).level =
            IF last.filelevel = "" THEN last.pre.level
            ELSE NameToLevel[last.filelevel]

(* C4 witness: a sink added without a file level to a handle that has no
   level of its own under a root at WARNING; the sink is at NOTSET. *)
C4_Witness ==
    /\ last.op = "add_file_handler"
    /\ last.filelevel = ""
    /\ last.pre.level = 0
    /\ last.preEffective = 30
    /\ NewestSink(last.handle).level = 0

(* C9: get_logger sets the handle's level exactly when a level is given;
   it attaches or updates a console sink with the given formatter exactly
   when fmt or datefmt differs from the defaults, leaving the file sinks as
   they were; with level None and default patterns the handle's level, sinks
   and propagation flag are unchanged. *)
C9_GetLoggerEffects ==
    last.op = "get_logger" =>
        LET now == loggers[last.handle]
            custom == last.fmt # LOGFORMAT \/ last.datefmt # DATEFMT
        IN  /\ now.level = IF last.level # "None" THEN NameToLevel[last.level]
                           ELSE last.pre.level
            /\ now.propagate = last.pre.propagate
            /\ ~custom => now.handlers = last.pre.handlers
            /\ custom =>
                /\ \E i \in ConsoleSinks(now.handlers) :
                      now.handlers[i].formatter = Formatter(last.fmt, last.datefmt)
                /\ \A i \in FileSinks(last.pre.handlers) :
                      now.handlers[i] = last.pre.handlers[i]

----------------------------------------------------------------------------
(* SpecNames: get_logger on names built from the long prefixes, their
   aliases and fragments of both, then again on the name it returned. *)

Segments ==
    {OLD1, OLD2, NEW1, NEW2, <<".">>, <<"x">>,
     <<"h","h","n","k","_">>, <<"_","t","o","o","l","s">>}

RECURSIVE Concat(_)
Concat(segs) ==
    IF segs = <<>> THEN <<>> ELSE Head(segs) \o Concat(Tail(segs))

NameInputs ==
    {Concat(segs) : segs \in UNION {[1..k -> Segments] : k \in 0..MaxSegs}}

InitNames ==
    /\ loggers = FreshRegistry
    /\ last = NoCall
    /\ prev = NoCall
    /\ nops = 0
    /\ args \in NameInputs
    /\ result = <<>>
    /\ pc = "idle"
    /\ thr = <<>>

(* get_logger(name) with the default level and patterns *)
NamesCall ==
    /\ nops = 0
    /\ GetLogger(args, "None", LOGFORMAT, DATEFMT)

(* get_logger on the name of the handle the first call returned *)
NamesCallAgain ==
    /\ nops = 1
    /\ GetLogger(last.handle, "None", LOGFORMAT, DATEFMT)

NextNames == NamesCall \/ NamesCallAgain

SpecNames == InitNames /\ [][NextNames]_vars

(* C7: get_logger returns the registered handle whose name is the input
   with hhnk_research_tools -> hrt and then hhnk_threedi_tools -> htt
   applied; a name holding both long prefixes yields a name holding both
   aliases; and a call on an already shortened name returns that same name
   and the handle that exists already. *)
C7_ShortenedNameIsStable ==
    last.op = "get_logger" =>
        /\ last.handle \in DOMAIN loggers
        /\ last.handle = Replace(Replace(last.name, OLD1, NEW1), OLD2, NEW2)
        /\ (Contains(last.name, OLD1) /\ Contains(last.name, OLD2))
            => (Contains(last.handle, NEW1) /\ Contains(last.handle, NEW2))
        /\ (prev.op = "get_logger" /\ last.name = prev.handle)
            => /\ last.handle = last.name
               /\ last.existed
               /\ loggers[last.handle] = last.pre

(* C7 witness: a name with both long prefixes was shortened to a different
   name, and the second call on the shortened name returned it again. *)
C7_Witness ==
    /\ nops = 2
    /\ last.op = "get_logger"
    /\ Contains(prev.name, OLD1)
    /\ Contains(prev.name, OLD2)
    /\ prev.handle # prev.name
    /\ last.name = prev.handle
    /\ last.handle = prev.handle

----------------------------------------------------------------------------
(* get_logconfig_dict *)

NoneValue == [none |-> TRUE]
StrValue(str) == [none |-> FALSE, str |-> str]
DictValue(items) == [none |-> FALSE, items |-> items]   \* items: <<key, value>> in dict order
ListValue(items) == [list |-> TRUE, items |-> items]
NonListValue == [list |-> FALSE, items |-> <<>>]

(* Python truth of an optional string / an optional dict *)
TruthyStr(v) == ~v.none /\ v.str # ""
TruthyDict(v) == ~v.none /\ v.items # <<>>

Raised(error) == [raised |-> TRUE, error |-> error]
Returned(value) == [raised |-> FALSE, value |-> value]

(* m[key] = value on a dict m *)
DictSet(m, key, value) ==
    [k \in DOMAIN m \cup {key} |-> IF k = key THEN value ELSE m[k]]

(* lines 33-67: the descriptor before the overrides *)
BaseConfig(level_root) ==
    [version |-> 1,
     disable_existing_loggers |-> FALSE,
     loggers |-> [n \in {RootName} |->
                    [level |-> level_root,
                     handlers |-> <<"debug_console_handler", "stderr">>]],
     handlers |-> [k \in {"null", "debug_console_handler", "stderr"} |->
                    CASE k = "null" -> [class |-> "logging.NullHandler"]
                      [] k = "debug_console_handler" ->
                            [level |-> "NOTSET", formatter |-> "time_level_name",
                             class |-> "logging.StreamHandler",
                             stream |-> "ext://sys.stdout"]
                      [] k = "stderr" ->
                            [level |-> "ERROR", formatter |-> "time_level_name",
                             class |-> "logging.StreamHandler",
                             stream |-> "ext://sys.stderr"]],
     formatters |-> [k \in {"time_level_name"} |->
                        [format |-> LOGFORMAT, datefmt |-> DATEFMT]]]

(* for pkg in level_list: logconfig_dict["loggers"][pkg] = {"level": loglevel} *)
RECURSIVE SetPackageLevels(_, _, _, _)
SetPackageLevels(entries, loglevel, level_list, j) ==
    IF j > Len(level_list) THEN entries
    ELSE SetPackageLevels(DictSet(entries, level_list[j], [level |-> loglevel]),
                          loglevel, level_list, j + 1)

(* An override loop that passes over a value that is not a list. *)
RECURSIVE ApplyLevelDictUnchecked(_, _, _)
ApplyLevelDictUnchecked(entries, items, k) ==
    IF k > Len(items) THEN Returned(entries)
    ELSE ApplyLevelDictUnchecked(
            SetPackageLevels(entries, items[k][1], items[k][2].items, 1), items, k + 1)

(* An override loop in which the first level to name a package is kept. *)
RECURSIVE ApplyLevelDictFirstWins(_, _, _)
ApplyLevelDictFirstWins(entries, items, k) ==
    IF k > Len(items) THEN Returned(entries)
    ELSE IF ~items[k][2].list THEN Raised("TypeError")
    ELSE LET later == ApplyLevelDictFirstWins(entries, items, k + 1)
         IN  IF later.raised THEN later
             ELSE Returned(SetPackageLevels(later.value, items[k][1],
                                            items[k][2].items, 1))

(* lines 71-80: for loglevel, level_list in level_dict.items(): the check
   "isinstance(level_list, list)" is made when the loop reaches the key. *)
RECURSIVE ApplyLevelDict(_, _, _)
ApplyLevelDict(entries, items, k) ==
    IF k > Len(items) THEN Returned(entries)
    ELSE IF ~items[k][2].list THEN Raised("TypeError")
    ELSE ApplyLevelDict(SetPackageLevels(entries, items[k][1], items[k][2].items, 1),
                        items, k + 1)

(* lines 82-92 *)
WithFileHandlerEntry(config, log_filepath) ==
    IF TruthyStr(log_filepath)
    THEN [config EXCEPT !.handlers =
            DictSet(@, "info_rotating_file_handler",
                    [level |-> "INFO", formatter |-> "time_level_name",
                     class |-> "logging.handlers.TimedRotatingFileHandler",
                     when |-> "D", backupCount |-> TimedBackupCount,
                     filename |-> log_filepath.str])]
    ELSE config

get_logconfig_dict(level_root, level_dict, log_filepath) ==
    LET base == BaseConfig(level_root)
        over == IF TruthyDict(level_dict)
                THEN ApplyLevelDict(base.loggers, level_dict.items, 1)
                ELSE Returned(base.loggers)
    IN  IF over.raised THEN over
        ELSE Returned(WithFileHandlerEntry([base EXCEPT !.loggers = over.value],
                                           log_filepath))

----------------------------------------------------------------------------
(* set_default_logconfig *)

(* The handler logging.config.dictConfig builds for a key of the handlers
   table that a logger entry names. *)
ConfiguredHandler(config, key) ==
    NewStreamHandler(
        IF config.handlers[key].stream = "ext://sys.stderr" THEN StderrName ELSE StdoutName,
        config.formatters[config.handlers[key].formatter].format,
        config.formatters[config.handlers[key].formatter].datefmt,
        NameToLevel[config.handlers[key].level])

ConfiguredHandlers(config, entry) ==
    IF "handlers" \in DOMAIN entry
    THEN [i \in 1..Len(entry.handlers) |-> ConfiguredHandler(config, entry.handlers[i])]
    ELSE <<>>

(* logging.config.dictConfig(log_config), not incremental, with
   disable_existing_loggers False: every logger the descriptor names gets
   its level and exactly the handlers its entry lists; a registered logger
   the descriptor does not name is reset when it is a child of a named,
   registered one, and is left alone otherwise. *)
dictConfig(reg, config) ==
    LET named == DOMAIN config.loggers
        existing == DOMAIN reg \ {RootName}
        children == {e \in existing \ named :
                        \E n \in (named \cap existing) : IsAncestorName(n, e)}
    IN  [n \in DOMAIN reg \cup named |->
            IF n \in named
            THEN [level |-> NameToLevel[config.loggers[n].level],
                  handlers |-> ConfiguredHandlers(config, config.loggers[n]),
                  propagate |-> IF n \in DOMAIN reg THEN reg[n].propagate ELSE TRUE]
            ELSE IF n \in children THEN NewLogger
            ELSE reg[n]]

(* A caller that builds the descriptor and returns it. *)
CallGetLogconfigDict ==
    /\ pc = "start"
    /\ result' = get_logconfig_dict(args.level_root, args.level_dict, args.log_filepath)
    /\ pc' = "built"
    /\ UNCHANGED <<loggers, last, prev, nops, args, thr>>

(* set_default_logconfig: an error of the builder propagates before
   dictConfig is reached; logging.config is an attribute of logging only
   when some module has imported it. *)
SetDefaultLogconfig ==
    /\ pc = "start"
    /\ LET log_config == get_logconfig_dict(args.level_root, args.level_dict,
                                            args.log_filepath)
       IN  IF log_config.raised
           THEN /\ result' = log_config
                /\ pc' = "raised"
                /\ UNCHANGED loggers
           ELSE \E imported \in BOOLEAN :
                   IF imported
                   THEN /\ loggers' = dictConfig(loggers, log_config.value)
                        /\ result' = Returned(NoneValue)
                        /\ pc' = "applied"
                   ELSE /\ result' = Raised("AttributeError")
                        /\ pc' = "raised"
                        /\ UNCHANGED loggers
    /\ UNCHANGED <<last, prev, nops, args, thr>>

(* Inputs of SpecConfig *)
APP == <<"a","p","p">>
APPSUB == <<"a","p","p",".","s">>
ConfigNamespaces == {RootName, APP}
LevelKeys == {"DEBUG", "INFO"}
LevelRoots == {"WARNING", "INFO"}
LogFilepaths == {NoneValue, StrValue(""), StrValue("/tmp/x.log")}

LevelLists == UNION {[1..k -> ConfigNamespaces] : k \in 0..MaxList}
LevelValues == {ListValue(l) : l \in LevelLists} \cup {NonListValue}

LevelDicts ==
    {NoneValue, DictValue(<<>>)}
    \cup {DictValue(<< <<k, v>> >>) : k \in LevelKeys, v \in LevelValues}
    \cup UNION {{DictValue(<< <<k1, v1>>, <<k2, v2>> >>) :
                    k2 \in LevelKeys \ {k1}, v1 \in LevelValues, v2 \in LevelValues} :
                 k1 \in LevelKeys}

(* Registries the builder can be called in: a fresh one, one with handles
   that carry a level and a console sink of their own, and that one after a
   default set_default_logconfig. *)
RegistryWithHandles ==
    get_logger(get_logger(FreshRegistry, APP, "DEBUG", CUSTOMFMT, DATEFMT),
               APPSUB, "INFO", LOGFORMAT, DATEFMT)

ConfigStartRegistries ==
    {FreshRegistry,
     RegistryWithHandles,
     dictConfig(RegistryWithHandles,
                get_logconfig_dict("WARNING", NoneValue, NoneValue).value)}

InitConfig ==
    /\ loggers \in ConfigStartRegistries
    /\ args \in {[level_root |-> lr, level_dict |-> ld, log_filepath |-> fp,
                  before |-> loggers] :
                    lr \in LevelRoots, ld \in LevelDicts, fp \in LogFilepaths}
    /\ last = NoCall
    /\ prev = NoCall
    /\ nops = 0
    /\ result = <<>>
    /\ pc = "start"
    /\ thr = <<>>

NextConfig == CallGetLogconfigDict \/ SetDefaultLogconfig

SpecConfig == InitConfig /\ [][NextConfig]_vars

----------------------------------------------------------------------------
(* Properties of the configuration builder, under SpecConfig *)

DictItems(level_dict) == IF level_dict.none THEN <<>> ELSE level_dict.items

HasNonList(level_dict) ==
    \E k \in 1..Len(DictItems(level_dict)) : ~DictItems(level_dict)[k][2].list

(* The namespaces the k-th level key lists *)
ListedUnder(level_dict, k) ==
    {DictItems(level_dict)[k][2].items[j] :
        j \in 1..Len(DictItems(level_dict)[k][2].items)}

ListedNamespaces(level_dict) ==
    UNION {ListedUnder(level_dict, k) : k \in 1..Len(DictItems(level_dict))}

(* The last level key, in the order of the dict, that lists ns *)
LastKeyListing(level_dict, ns) ==
    CHOOSE k \in 1..Len(DictItems(level_dict)) :
        /\ ns \in ListedUnder(level_dict, k)
        /\ \A m \in (k + 1)..Len(DictItems(level_dict)) :
                ns \notin ListedUnder(level_dict, m)

RootEntryReflectsInput(config) ==
    /\ RootName \in DOMAIN config.loggers
    /\ config.loggers[RootName].level = args.level_root
    /\ "handlers" \in DOMAIN config.loggers[RootName]
    /\ \A i \in 1..Len(config.loggers[RootName].handlers) :
            config.loggers[RootName].handlers[i] \in DOMAIN config.handlers

FileEntryIsTimedRotating(config) ==
    config.handlers["info_rotating_file_handler"] =
        [level |-> "INFO", formatter |-> "time_level_name",
         class |-> "logging.handlers.TimedRotatingFileHandler",
         when |-> "D", backupCount |-> TimedBackupCount,
         filename |-> args.log_filepath.str]

(* C5 as stated: for every input whose level_dict values are all lists the
   descriptor has (1) a root entry at level_root whose handlers are all keys
   of the handlers table, (2) for every namespace listed under a level key
   an entry with exactly that level, (3) the key info_rotating_file_handler
   (daily, backupCount 7, INFO, filename = log_filepath) if and only if a
   log_filepath was supplied. *)
C5_DescriptorReflectsInputs ==
    (pc = "built" /\ ~HasNonList(args.level_dict)) =>
        /\ ~result.raised
        /\ RootEntryReflectsInput(result.value)
        /\ \A k \in 1..Len(DictItems(args.level_dict)) :
             \A ns \in ListedUnder(args.level_dict, k) :
                /\ ns \in DOMAIN result.value.loggers
                /\ result.value.loggers[ns].level = DictItems(args.level_dict)[k][1]
        /\ ("info_rotating_file_handler" \in DOMAIN result.value.handlers)
                <=> ~args.log_filepath.none
        /\ ("info_rotating_file_handler" \in DOMAIN result.value.handlers)
                => FileEntryIsTimedRotating(result.value)

(* C5 as amended: for every input whose level_dict values are all lists the
   descriptor has (1) a root entry at level_root whose handlers are all keys
   of the handlers table, unless the empty namespace is listed, (2) entries
   for the root and the listed namespaces only, each listed namespace at the
   level of the last key that lists it, (3) the key
   info_rotating_file_handler (daily, backupCount 7, INFO, filename =
   log_filepath) if and only if log_filepath is a non-empty string. *)
C5_DescriptorReflectsLastListing ==
    (pc = "built" /\ ~HasNonList(args.level_dict)) =>
        /\ ~result.raised
        /\ RootName \notin ListedNamespaces(args.level_dict)
                => RootEntryReflectsInput(result.value)
        /\ DOMAIN result.value.loggers
                = {RootName} \cup ListedNamespaces(args.level_dict)
        /\ \A ns \in ListedNamespaces(args.level_dict) :
                result.value.loggers[ns] =
                    [level |-> DictItems(args.level_dict)
                                    [LastKeyListing(args.level_dict, ns)][1]]
        /\ ("info_rotating_file_handler" \in DOMAIN result.value.handlers)
                <=> TruthyStr(args.log_filepath)
        /\ ("info_rotating_file_handler" \in DOMAIN result.value.handlers)
                => FileEntryIsTimedRotating(result.value)

(* C5 witness: a descriptor built from a level_dict that lists one namespace
   under two level keys, with a log file path. *)
C5_Witness ==
    /\ pc = "built"
    /\ ~result.raised
    /\ Len(DictItems(args.level_dict)) = 2
    /\ ~HasNonList(args.level_dict)
    /\ APP \in ListedUnder(args.level_dict, 1) \cap ListedUnder(args.level_dict, 2)
    /\ TruthyStr(args.log_filepath)
    /\ "info_rotating_file_handler" \in DOMAIN result.value.handlers

(* C6: when a value under a level key of level_dict is not a list,
   get_logconfig_dict and set_default_logconfig raise a TypeError, return
   no descriptor and leave the registry (loggers, levels, handlers) as it
   was before the call, wherever the offending key stands. *)
C6_NonListFailsBeforeGlobalState ==
    (pc # "start" /\ HasNonList(args.level_dict)) =>
        /\ result = Raised("TypeError")
        /\ loggers = args.before

(* C6 witness: set_default_logconfig raised on a level_dict whose second
   key is the offending one, after a first key with a non-empty list, in a
   registry that already holds configured handles. *)
C6_Witness ==
    /\ pc = "raised"
    /\ result = Raised("TypeError")
    /\ Len(DictItems(args.level_dict)) = 2
    /\ DictItems(args.level_dict)[1][2].list
    /\ DictItems(args.level_dict)[1][2].items # <<>>
    /\ ~DictItems(args.level_dict)[2][2].list
    /\ loggers = args.before
    /\ loggers # FreshRegistry

----------------------------------------------------------------------------
(* SpecConc: callers on several threads, each running add_file_handler or
   _add_or_update_streamhandler_format on the same handle.  The loop over
   logger.handlers reads the shared list through a list iterator;
   removeHandler, addHandler and setFormatter are single steps.  Handlers
   carry an id, so that a step acts on the object the thread holds. *)

HRT == NEW1

FileOp(filepath, fmt) == [kind |-> "file", filepath |-> filepath, fmt |-> fmt]
StreamOp(fmt) == [kind |-> "stream", filepath |-> NoPath, fmt |-> fmt]

WithId(h, id) == h @@ [id |-> id]

Handle == loggers[HRT]

(* The test the loop of the thread's operation makes on a handler *)
ScanMatches(op, h) ==
    IF op.kind = "file"
    THEN IsFileHandler(h) /\ PathEqualsArg(h.name, op.filepath)
    ELSE IsStreamHandler(h)

(* One turn of "for handler in logger.handlers" up to the test *)
ThreadScan(t) ==
    /\ thr[t].pc = "scan"
    /\ IF thr[t].i > Len(Handle.handlers)
       THEN thr' = [thr EXCEPT ![t].pc = "add"]
       ELSE thr' = [thr EXCEPT
                        ![t].i = @ + 1,
                        ![t].cur = Handle.handlers[thr[t].i].id,
                        ![t].pc = IF ScanMatches(thr[t].op, Handle.handlers[thr[t].i])
                                  THEN (IF thr[t].op.kind = "file" THEN "remove" ELSE "update")
                                  ELSE "scan"]
    /\ UNCHANGED <<loggers, last, prev, nops, args, result, pc>>

(* logger.removeHandler(handler), line 151 *)
ThreadRemove(t) ==
    /\ thr[t].pc = "remove"
    /\ loggers' = [loggers EXCEPT ![HRT].handlers =
            SelectSeq(@, LAMBDA h : h.id # thr[t].cur)]
    /\ thr' = [thr EXCEPT ![t].pc = "scan"]
    /\ UNCHANGED <<last, prev, nops, args, result, pc>>

(* handler.setFormatter(...); return, lines 183-185 *)
ThreadUpdate(t) ==
    /\ thr[t].pc = "update"
    /\ loggers' = [loggers EXCEPT ![HRT].handlers =
            [i \in 1..Len(@) |->
                IF @[i].id = thr[t].cur
                THEN [@[i] EXCEPT !.formatter = Formatter(thr[t].op.fmt, DATEFMT)]
                ELSE @[i]]]
    /\ thr' = [thr EXCEPT ![t].pc = "done"]
    /\ UNCHANGED <<last, prev, nops, args, result, pc>>

(* The new sink is created and logger.addHandler appends it, lines 154-172
   and 196-198 *)
ThreadAdd(t) ==
    /\ thr[t].pc = "add"
    /\ loggers' = [loggers EXCEPT ![HRT].handlers =
            Append(@, WithId(
                IF thr[t].op.kind = "file"
                THEN NewFileHandler(Handle, thr[t].op.filepath, "a", "", thr[t].op.fmt,
                                    FILEDATEFMT, DefaultMaxBytes, DefaultBackupCount,
                                    FALSE, "None")
                ELSE NewStreamHandler(StdoutName, thr[t].op.fmt, DATEFMT, 0),
                nops + 1))]
    /\ nops' = nops + 1
    /\ thr' = [thr EXCEPT ![t].pc = "done"]
    /\ UNCHANGED <<last, prev, args, result, pc>>

(* Inputs of SpecConc: absolute Path arguments only, so that the scan of a
   caller running alone does find the sink of its path. *)
ConcOps == {FileOp(PathObj(P1), LOGFORMAT), FileOp(PathObj(P2), LOGFORMAT),
            StreamOp(CUSTOMFMT), StreamOp(OTHERFMT)}

ConcStartHandlers ==
    {<<>>,
     <<WithId(NewStreamHandler(StdoutName, LOGFORMAT, DATEFMT, 0), 1)>>,
     <<WithId(NewFileHandler(NewLogger, PathObj(P1), "a", "", LOGFORMAT, FILEDATEFMT,
                             DefaultMaxBytes, DefaultBackupCount, FALSE, "None"), 1)>>}

InitConc ==
    /\ \E hs \in ConcStartHandlers :
          /\ loggers = [n \in {RootName, HRT} |->
                            IF n = RootName THEN FreshRegistry[RootName]
                            ELSE [NewLogger EXCEPT !.handlers = hs]]
          /\ nops = Len(hs)
    /\ thr \in [1..NumThreads ->
                    {[op |-> o, pc |-> "scan", i |-> 1, cur |-> 0] :
                        o \in ConcOps}]
    /\ last = NoCall
    /\ prev = NoCall
    /\ args = <<>>
    /\ result = <<>>
    /\ pc = "idle"

NextConc ==
    \E t \in 1..NumThreads :
        \/ ThreadScan(t)
        \/ ThreadRemove(t)
        \/ ThreadUpdate(t)
        \/ ThreadAdd(t)

SpecConc == InitConc /\ [][NextConc]_vars

AllDone == \A t \in 1..NumThreads : thr[t].pc = "done"

(* C8: when the callers have all returned, whatever the interleaving of
   their scan, remove and add steps, the handle holds at most one file sink
   per path and at most one console sink. *)
C8_NoDuplicateSinksUnderInterleaving ==
    AllDone =>
        /\ \A i, j \in FileSinks(Handle.handlers) :
                i # j => Handle.handlers[i].name # Handle.handlers[j].name
        /\ Cardinality(ConsoleSinks(Handle.handlers)) <= 1

----------------------------------------------------------------------------
(* SpecCommute: two calls a and b of the sink helpers, made in the order
   a, b on one handle and in the order b, a on another handle that starts
   with the same sinks. *)

HX == <<"x">>
HY == <<"y">>

ApplySinkOp(n, op) ==
    IF op.kind = "file"
    THEN AddFileHandler(n, op.filepath, "", op.fmt, FALSE, "None")
    ELSE AddOrUpdateStreamhandlerFormat(n, op.fmt, DATEFMT)

CommuteFirstOnX == nops = 0 /\ ApplySinkOp(HX, args.a)
CommuteSecondOnX == nops = 1 /\ ApplySinkOp(HX, args.b)
CommuteFirstOnY == nops = 2 /\ ApplySinkOp(HY, args.b)
CommuteSecondOnY == nops = 3 /\ ApplySinkOp(HY, args.a)

(* Pairs of calls the property is about: file sinks of two different
   paths, or a file sink and the console helper. *)
CommuteOps ==
    {FileOp(PathObj(P1), f) : f \in {LOGFORMAT, OTHERFMT}}
    \cup {FileOp(PathObj(P2), f) : f \in {LOGFORMAT, OTHERFMT}}
    \cup {StreamOp(f) : f \in {CUSTOMFMT, OTHERFMT}}

CommutePairs ==
    {pair \in CommuteOps \X CommuteOps :
        /\ pair[1].kind = "file" \/ pair[2].kind = "file"
        /\ (pair[1].kind = "file" /\ pair[2].kind = "file")
                => pair[1].filepath # pair[2].filepath}

(* Sinks a handle can start with, each reached by the helpers from a new
   handle. *)
CommuteStartLoggers ==
    {NewLogger,
     add_or_update_streamhandler_format(NewLogger, LOGFORMAT, FILEDATEFMT),
     add_file_handler(NewLogger, PathObj(P2), "a", "", LOGFORMAT, FILEDATEFMT,
                      DefaultMaxBytes, DefaultBackupCount, FALSE, "None"),
     add_file_handler(
        add_or_update_streamhandler_format(NewLogger, LOGFORMAT, FILEDATEFMT),
        PathObj(P1), "a", "", LOGFORMAT, FILEDATEFMT,
        DefaultMaxBytes, DefaultBackupCount, FALSE, "None")}

InitCommute ==
    /\ \E start \in CommuteStartLoggers :
          loggers = [n \in {RootName, HX, HY} |->
                        IF n = RootName THEN FreshRegistry[RootName] ELSE start]
    /\ \E pair \in CommutePairs : args = [a |-> pair[1], b |-> pair[2]]
    /\ last = NoCall
    /\ prev = NoCall
    /\ nops = 0
    /\ result = <<>>
    /\ pc = "idle"
    /\ thr = <<>>

NextCommute ==
    \/ CommuteFirstOnX
    \/ CommuteSecondOnX
    \/ CommuteFirstOnY
    \/ CommuteSecondOnY

SpecCommute == InitCommute /\ [][NextCommute]_vars

(* A sink's identity: its kind, its file path or stream, its formatter *)
SinkSet(handlers) ==
    {[cls |-> handlers[i].cls, name |-> handlers[i].name,
      formatter |-> handlers[i].formatter] : i \in 1..Len(handlers)}

KeepsGivenFormatter(handlers, op) ==
    op.kind = "file" =>
        \E i \in FileSinks(handlers) :
            /\ handlers[i].name = AbsPath(op.filepath.parts)
            /\ handlers[i].formatter = Formatter(op.fmt, FILEDATEFMT)

(* C10: two sink calls (file sinks of different paths, or a file sink and
   the console helper) made in either order from the same sinks leave the
   same set of sinks - same kinds, same paths, same formatter per sink -
   and each file sink keeps the formatter add_file_handler gave it. *)
C10_SinkCallsCommute ==
    nops = 4 =>
        /\ SinkSet(loggers[HX].handlers) = SinkSet(loggers[HY].handlers)
        /\ \A n \in {HX, HY} :
              /\ KeepsGivenFormatter(loggers[n].handlers, args.a)
              /\ KeepsGivenFormatter(loggers[n].handlers, args.b)

====
